---- MODULE Spec2Model ----
(***************************************************************************)
(* The labeling pipeline of src/graph.py and src/agents.py: one run of     *)
(* run_labeling_graph drives a LabelingState through labeler_node,         *)
(* critic_node, validator_node and fallback_node.  Every node returns a    *)
(* Command (goto, update); the graph merges the update into the state and  *)
(* moves to the node named by goto.                                        *)
(***************************************************************************)
EXTENDS Integers, Sequences, FiniteSets, TLC

VARIABLES
    pc,       \* the node the graph runs next, "__end__", or "returned"
    state,    \* the LabelingState dictionary of the run
    gw,       \* the gateway calls of the latest node that called the gateway
    item,     \* the HumanReviewItem built by fallback_node, None before
    write,    \* outcome of write_to_review_queue: "none", "ok" or "failed"
    queue,    \* the review queue directory: file name -> file content
    result,   \* the dictionary run_labeling_graph returns, None before
    clock,    \* what datetime.utcnow() returns now
    op,       \* the latest review-queue call: its name, arguments and result
    batch,    \* LabelingTool.run: its rows, loop position, results and reports
    decode,   \* a decoder call: the text, the function called and its result
    config,   \* the SystemConfig handed to run_labeling_graph
    entered   \* how many times the run has entered each node

vars == <<pc, state, gw, item, write, queue, result, clock, op, batch, decode,
          config, entered>>

(***************************************************************************)
(* Bounds of the model.                                                    *)
(***************************************************************************)
MaxRetriesBound == 2
MaxClock == 1
MaxFiles == 3
MaxItems == 3
MaxLen == 4
MaxRetriesLive == 1
LabelerConfidences == {90, 100, 150}
CriticConfidences == {60, 81, 100}

(***************************************************************************)
(* Configuration (src/config.py).  max_retries is copied from the config   *)
(* handed to run_labeling_graph into the state; the threshold is read by   *)
(* validator_node from get_config().                                       *)
(***************************************************************************)
min_confidence_threshold == 85

\* The singleton get_config() returns: SystemConfig() with its defaults.
get_config ==
    [max_retries |-> 3, min_confidence_threshold |-> min_confidence_threshold,
     review_queue_dir |-> "data/review_queue"]

None == [tag |-> "None"]

(***************************************************************************)
(* Completion Gateway responses.  llm.invoke either raises (a gateway      *)
(* failure or timeout, with the exception's text) or returns a message     *)
(* whose content is prose without any JSON, or text holding a JSON object. *)
(***************************************************************************)
Raise(msg) == [kind |-> "raise", msg |-> msg]
Text(form, value) == [kind |-> "text", content |-> [form |-> form, value |-> value]]

TimeoutText == "Request timed out."
LabelPredictionErrorText == "1 validation error for LabelPrediction confidence Field required"

LabelerResponses ==
    {Raise(TimeoutText), Text("prose", None),
     Text("json", [label |-> "POSITIVE", reasoning |-> "r"])}
    \cup {Text("json", [label |-> "POSITIVE", confidence |-> c, reasoning |-> "r"]) :
             c \in LabelerConfidences}

\* The critique of a rejection names the label attempt it rejects, so that
\* the critiques of different rounds are different texts.
Critique(n) == "wrong " \o ToString(n)

CriticResponses(n) ==
    {Raise(TimeoutText), Text("prose", None),
     Text("json", [is_correct |-> FALSE, confidence_score |-> 60, critique |-> Critique(n)])}
    \cup {Text("json", [is_correct |-> TRUE, confidence_score |-> c,
                        critique |-> "Label is correct"]) : c \in CriticConfidences}

(***************************************************************************)
(* The response decoders.  A text is a sequence of tokens: the brackets,   *)
(* the comma, a member with double-quoted key (kv), a member with single-  *)
(* quoted key (skv), a scalar literal (true), a word of prose (w), a code  *)
(* fence of three backquotes (FENCE), white space, and the words call_llm  *)
(* puts after "[" when the call failed.                                    *)
(***************************************************************************)
\* str.startswith and str.endswith, on a str as the sequence of its parts.
startswith(s, prefix) ==
    Len(prefix) <= Len(s) /\ SubSeq(s, 1, Len(prefix)) = prefix

endswith(s, suffix) ==
    Len(suffix) <= Len(s) /\ SubSeq(s, Len(s) - Len(suffix) + 1, Len(s)) = suffix

Tokens == {"{", "}", "[", "]", ",", "kv", "skv", "true", "w", "FENCE", " ", "LLM ERROR"}

Texts == UNION {[1..n -> Tokens] : n \in 0..MaxLen}

RECURSIVE lstrip(_)
lstrip(text) ==
    IF text /= <<>> /\ Head(text) = " " THEN lstrip(Tail(text)) ELSE text

RECURSIVE rstrip(_)
rstrip(text) ==
    IF text /= <<>> /\ text[Len(text)] = " "
    THEN rstrip(SubSeq(text, 1, Len(text) - 1))
    ELSE text

strip(text) == rstrip(lstrip(text))

\* The grammar json.loads accepts, on a text without white space.
RECURSIVE IsValue(_)
RECURSIVE IsElements(_)
IsMembers(t) ==
    /\ Len(t) % 2 = 1
    /\ \A i \in 1..Len(t) : t[i] = (IF i % 2 = 1 THEN "kv" ELSE ",")

IsValue(t) ==
    \/ t = <<"true">>
    \/ /\ Len(t) >= 2 /\ t[1] = "{" /\ t[Len(t)] = "}"
       /\ (Len(t) = 2 \/ IsMembers(SubSeq(t, 2, Len(t) - 1)))
    \/ /\ Len(t) >= 2 /\ t[1] = "[" /\ t[Len(t)] = "]"
       /\ (Len(t) = 2 \/ IsElements(SubSeq(t, 2, Len(t) - 1)))

IsElements(t) ==
    \/ IsValue(t)
    \/ \E j \in 2..(Len(t) - 1) :
          /\ t[j] = ","
          /\ IsValue(SubSeq(t, 1, j - 1))
          /\ IsElements(SubSeq(t, j + 1, Len(t)))

JSONDecodeError == Raise("JSONDecodeError")

\* json.loads: the value the text denotes (white space between tokens is
\* ignored), or the exception it raises.
json_loads(text) ==
    LET t == SelectSeq(text, LAMBDA c : c /= " ")
    IN IF IsValue(t)
       THEN [kind |-> "value",
             json |-> IF t[1] = "{" THEN "object"
                      ELSE IF t[1] = "[" THEN "array" ELSE "literal",
             text |-> t]
       ELSE JSONDecodeError

\* try: return json.loads(...) / except Exception: pass.  None: fall through.
TryLoads(text) ==
    LET r == json_loads(text) IN IF r.kind = "raise" THEN None ELSE r

\* What re.search returns: a match with its group, or no match.
Match(group) == [matched |-> TRUE, group |-> group]

NoMatch == [matched |-> FALSE]

Positions(text, token) == {i \in 1..Len(text) : text[i] = token}

Min(S) == CHOOSE x \in S : \A y \in S : x <= y

Max(S) == CHOOSE x \in S : \A y \in S : x >= y

\* re.search of the fenced-block pattern (fence, optional json tag, white
\* space, a non-empty group taken lazily, fence): group 1 of the leftmost
\* match, which runs from the first fence to the nearest later fence that
\* leaves the group non-empty.
fenced_block(text) ==
    LET fences == Positions(text, "FENCE")
    IN IF fences = {} THEN NoMatch
       ELSE LET closing == {k \in fences : k > Min(fences) + 1}
            IN IF closing = {} THEN NoMatch
               ELSE Match(SubSeq(text, Min(fences) + 1, Min(closing) - 1))

\* re.search of an opening bracket, one or more characters taken greedily
\* and a closing bracket, for braces and for square brackets: from the first
\* opening bracket to the last closing one, with at least one character
\* between them.
span(text, open, close) ==
    LET opens == Positions(text, open)
        closes == Positions(text, close)
    IN IF opens = {} \/ closes = {} THEN NoMatch
       ELSE IF Max(closes) >= Min(opens) + 2
            THEN Match(SubSeq(text, Min(opens), Max(closes)))
            ELSE NoMatch

\* re.sub of a comma, white space and a closing bracket by the bracket.
RECURSIVE drop_trailing_commas(_)
drop_trailing_commas(text) ==
    IF text = <<>> THEN <<>>
    ELSE LET rest == lstrip(Tail(text))
         IN IF Head(text) = "," /\ rest /= <<>> /\ Head(rest) \in {"}", "]"}
            THEN drop_trailing_commas(rest)
            ELSE <<Head(text)>> \o drop_trailing_commas(Tail(text))

\* cleaned.replace: every single quote becomes a double quote.
double_quotes(text) ==
    [i \in 1..Len(text) |-> IF text[i] = "skv" THEN "kv" ELSE text[i]]

FirstOf(results) ==
    IF \A i \in 1..Len(results) : results[i] = None THEN None
    ELSE results[Min({i \in 1..Len(results) : results[i] /= None})]

\* agents._safe_parse_json
_safe_parse_json(raw) ==
    LET text == strip(raw)
        block == fenced_block(text)
        braces == span(text, "{", "}")
    IN FirstOf(<<TryLoads(text),
                 IF block.matched THEN TryLoads(strip(block.group)) ELSE None,
                 IF braces.matched THEN TryLoads(braces.group) ELSE None>>)

\* llm_utils.parse_llm_json
parse_llm_json(response_text) ==
    IF response_text = <<>> \/ startswith(response_text, <<"[", "LLM ERROR">>)
    THEN None
    ELSE LET text == strip(response_text)
             block == fenced_block(text)
             braces == span(text, "{", "}")
             brackets == span(text, "[", "]")
             cleaned == double_quotes(drop_trailing_commas(text))
             repaired == span(cleaned, "{", "}")
         IN FirstOf(<<TryLoads(text),
                      IF block.matched THEN TryLoads(strip(block.group)) ELSE None,
                      IF braces.matched THEN TryLoads(braces.group) ELSE None,
                      IF brackets.matched THEN TryLoads(brackets.group) ELSE None,
                      IF repaired.matched THEN TryLoads(repaired.group) ELSE None>>)

\* _safe_parse_json on a gateway response of the run: the decoded object
\* for a text that is an object, None for prose.
safe_parse_json(content) ==
    IF content.form = "json" THEN content.value ELSE None

(***************************************************************************)
(* error_log entries: the stage's message, the attempt number it formats   *)
(* into the message (0 when none) and the appended exception text or value.*)
(***************************************************************************)
Entry(text, n, arg) == [text |-> text, n |-> n, arg |-> arg]

LabelerAttemptFailed(n, msg) == Entry("Labeler attempt failed: ", n, msg)
LabelerAllFailed == Entry("Labeler: all attempts failed, sending to fallback", 0, "")
CriticAttemptFailed(n, msg) == Entry("Critic attempt failed: ", n, msg)
CriticMaxRetries == Entry("Critic: max retries reached, sending to fallback", 0, "")
ValidatorBelow(final_conf) == Entry("Validator: confidence below threshold", final_conf, "")

\* Python's `word in str(error_log)`, for the words fallback_node looks for.
Contains(entry, word) ==
    CASE word = "confidence" ->
            \/ entry.text = "Validator: confidence below threshold"
            \/ entry.arg = LabelPredictionErrorText
      [] word = "Parse error" -> FALSE
      [] OTHER -> FALSE

InLog(word, error_log) ==
    \E i \in 1..Len(error_log) : Contains(error_log[i], word)

(***************************************************************************)
(* Pydantic models (src/models.py).                                        *)
(***************************************************************************)
ValidLabelPrediction(parsed) ==
    {"label", "confidence", "reasoning"} \subseteq DOMAIN parsed

LabelPrediction(parsed) ==
    [label |-> parsed.label, confidence |-> parsed.confidence,
     reasoning |-> parsed.reasoning, bounding_boxes |-> <<>>]

CriticReview(parsed) ==
    [is_correct |-> parsed.is_correct, confidence_score |-> parsed.confidence_score,
     critique |-> parsed.critique]

(***************************************************************************)
(* labeler_node                                                            *)
(***************************************************************************)
\* One pass of the `for attempt in range(2)` loop: the prediction (or None)
\* and what the pass appends to error_log.  A text without an object makes
\* `if parsed:` false and logs nothing; an exception from llm.invoke or from
\* the Pydantic constructor is logged.
LabelerAttempt(resp, n) ==
    IF resp.kind = "raise"
    THEN [out |-> None, log |-> <<LabelerAttemptFailed(n, resp.msg)>>]
    ELSE LET parsed == safe_parse_json(resp.content)
         IN IF parsed = None
            THEN [out |-> None, log |-> <<>>]
            ELSE IF ~ValidLabelPrediction(parsed)
                 THEN [out |-> None,
                       log |-> <<LabelerAttemptFailed(n, LabelPredictionErrorText)>>]
                 ELSE [out |-> LabelPrediction(parsed), log |-> <<>>]

\* Variant: the feedback is the critique of the first review of the run.
critic_feedback_first(st) ==
    IF st.critic_review /= None /\ ~st.critic_review.is_correct
    THEN st.critic_reviews[1].critique
    ELSE ""

critic_feedback(st) ==
    IF st.critic_review /= None /\ ~st.critic_review.is_correct
    THEN st.critic_review.critique
    ELSE ""

\* prompts.py: the feedback block is empty unless there is feedback.
feedback_block(critic_feedback_text) ==
    IF critic_feedback_text /= ""
    THEN <<"PREVIOUS ATTEMPT FEEDBACK (incorporate this into your new label):",
           critic_feedback_text>>
    ELSE <<>>

\* Every task type's template holds the feedback block and the text.
get_labeling_prompt(task_type, text_content, critic_feedback_text) ==
    [role |-> "labeler", task_type |-> task_type, text_content |-> text_content,
     feedback_block |-> feedback_block(critic_feedback_text)]

UnknownOutput ==
    [label |-> "UNKNOWN", confidence |-> 0, reasoning |-> "Parse error",
     bounding_boxes |-> <<>>]

\* Variant: the history is overwritten by the latest prediction.
append_attempt_replace(attempts, labeler_output) == <<labeler_output>>

\* attempts = list(state["labeler_attempts"]); attempts.append(labeler_output)
append_attempt(attempts, labeler_output) == Append(attempts, labeler_output)

labeler_node(st, resps) ==
    LET a1 == LabelerAttempt(resps[1], 1)
        a2 == IF a1.out /= None THEN [out |-> None, log |-> <<>>]
                                ELSE LabelerAttempt(resps[2], 2)
        labeler_output == IF a1.out /= None THEN a1.out ELSE a2.out
        error_log == st.error_log \o a1.log \o a2.log
    IN IF labeler_output = None
       THEN [goto |-> "fallback_node",
             update |-> [fallback_to_human |-> TRUE,
                         error_log |-> Append(error_log, LabelerAllFailed),
                         labeler_output |-> UnknownOutput]]
       ELSE [goto |-> "critic_node",
             update |-> [labeler_output |-> labeler_output,
                         labeler_attempts |-> append_attempt(st.labeler_attempts,
                                                             labeler_output),
                         error_log |-> error_log]]

\* Variant: the loop has no break and always makes both calls.
Calls_no_break(prompt, resps, firstOk) ==
    <<[prompt |-> prompt, response |-> resps[1]],
      [prompt |-> prompt, response |-> resps[2]]>>

\* The gateway calls a two-attempt node makes: the loop breaks after the
\* first response that yields an output.
Calls(prompt, resps, firstOk) ==
    IF firstOk THEN <<[prompt |-> prompt, response |-> resps[1]]>>
    ELSE <<[prompt |-> prompt, response |-> resps[1]],
           [prompt |-> prompt, response |-> resps[2]]>>

(***************************************************************************)
(* critic_node                                                             *)
(***************************************************************************)
CriticAttempt(resp, n) ==
    IF resp.kind = "raise"
    THEN [out |-> None, log |-> <<CriticAttemptFailed(n, resp.msg)>>]
    ELSE LET parsed == safe_parse_json(resp.content)
         IN IF parsed = None
            THEN [out |-> None, log |-> <<>>]
            ELSE [out |-> CriticReview(parsed), log |-> <<>>]

DefaultCriticConfidence == 70

\* Variant: an undecodable critic counts as a rejection.
DefaultReview_reject ==
    [is_correct |-> FALSE, confidence_score |-> DefaultCriticConfidence,
     critique |-> "Critic parse error - accepting label"]

\* The review critic_node takes when neither attempt yields one.
DefaultReview ==
    [is_correct |-> TRUE, confidence_score |-> DefaultCriticConfidence,
     critique |-> "Critic parse error - accepting label"]

\* Variant: the retry test is inclusive, allowing one retry too many.
critic_goto_inclusive(is_correct, retry_count, max_retries) ==
    IF is_correct THEN "validator_node"
    ELSE IF retry_count <= max_retries THEN "labeler_node"
    ELSE "fallback_node"

\* Variant: a rejection at the retry limit ends the graph without fallback.
critic_goto_no_fallback(is_correct, retry_count, max_retries) ==
    IF is_correct THEN "validator_node"
    ELSE IF retry_count < max_retries THEN "labeler_node"
    ELSE "__end__"

\* The if / elif / else that picks the node critic_node goes to.
critic_goto(is_correct, retry_count, max_retries) ==
    IF is_correct THEN "validator_node"
    ELSE IF retry_count < max_retries THEN "labeler_node"
    ELSE "fallback_node"

critic_node(st, resps) ==
    LET a1 == CriticAttempt(resps[1], 1)
        a2 == IF a1.out /= None THEN [out |-> None, log |-> <<>>]
                                ELSE CriticAttempt(resps[2], 2)
        decoded == IF a1.out /= None THEN a1.out ELSE a2.out
        error_log == st.error_log \o a1.log \o a2.log
        critic_review == IF decoded = None THEN DefaultReview ELSE decoded
        reviews == Append(st.critic_reviews, critic_review)
        retry_count == st.retry_count
        goto == critic_goto(critic_review.is_correct, retry_count, st.max_retries)
    IN IF goto = "validator_node"
       THEN [goto |-> goto,
             update |-> [critic_review |-> critic_review,
                         critic_reviews |-> reviews,
                         error_log |-> error_log]]
       ELSE IF goto = "labeler_node"
            THEN [goto |-> goto,
                  update |-> [critic_review |-> critic_review,
                              critic_reviews |-> reviews,
                              retry_count |-> retry_count + 1,
                              error_log |-> error_log]]
            ELSE [goto |-> goto,
                  update |-> [critic_review |-> critic_review,
                              critic_reviews |-> reviews,
                              fallback_to_human |-> TRUE,
                              error_log |-> Append(error_log, CriticMaxRetries)]]

(***************************************************************************)
(* validator_node                                                          *)
(***************************************************************************)
\* Variant: the mean is rounded up.
final_confidence_ceil(labeler_conf, critic_conf) == (labeler_conf + critic_conf + 1) \div 2

final_confidence(labeler_conf, critic_conf) == (labeler_conf + critic_conf) \div 2

\* Variant: the escalation starts a new error_log.
validator_node_new_log(st) ==
    LET labeler_conf == st.labeler_output.confidence
        critic_conf == st.critic_review.confidence_score
        final_conf == final_confidence(labeler_conf, critic_conf)
    IN IF final_conf < min_confidence_threshold
       THEN [goto |-> "fallback_node",
             update |-> [fallback_to_human |-> TRUE,
                         error_log |-> <<ValidatorBelow(final_conf)>>]]
       ELSE [goto |-> "__end__",
             update |-> [validated_output |->
                            [data_id |-> st.data_id,
                             label |-> st.labeler_output.label,
                             confidence |-> labeler_conf,
                             reasoning |-> st.labeler_output.reasoning,
                             critic_confidence |-> critic_conf,
                             final_confidence |-> final_conf,
                             retry_count |-> st.retry_count],
                         fallback_to_human |-> FALSE]]

\* Variant: a final confidence equal to the threshold is escalated too.
validator_node_strict(st) ==
    LET labeler_conf == st.labeler_output.confidence
        critic_conf == st.critic_review.confidence_score
        final_conf == final_confidence(labeler_conf, critic_conf)
    IN IF final_conf <= min_confidence_threshold
       THEN [goto |-> "fallback_node",
             update |-> [fallback_to_human |-> TRUE,
                         error_log |-> Append(st.error_log, ValidatorBelow(final_conf))]]
       ELSE [goto |-> "__end__",
             update |-> [validated_output |->
                            [data_id |-> st.data_id,
                             label |-> st.labeler_output.label,
                             confidence |-> labeler_conf,
                             reasoning |-> st.labeler_output.reasoning,
                             critic_confidence |-> critic_conf,
                             final_confidence |-> final_conf,
                             retry_count |-> st.retry_count],
                         fallback_to_human |-> FALSE]]

validator_node(st) ==
    LET labeler_conf == st.labeler_output.confidence
        critic_conf == st.critic_review.confidence_score
        final_conf == final_confidence(labeler_conf, critic_conf)
    IN IF final_conf < min_confidence_threshold
       THEN [goto |-> "fallback_node",
             update |-> [fallback_to_human |-> TRUE,
                         error_log |-> Append(st.error_log, ValidatorBelow(final_conf))]]
       ELSE [goto |-> "__end__",
             update |-> [validated_output |->
                            [data_id |-> st.data_id,
                             label |-> st.labeler_output.label,
                             confidence |-> labeler_conf,
                             reasoning |-> st.labeler_output.reasoning,
                             critic_confidence |-> critic_conf,
                             final_confidence |-> final_conf,
                             retry_count |-> st.retry_count],
                         fallback_to_human |-> FALSE]]

(***************************************************************************)
(* fallback_node                                                           *)
(***************************************************************************)
\* Variant: the log is searched before the retry limit is tested.
fallback_reason_log_first(st) ==
    IF InLog("confidence", st.error_log) THEN "LOW_CONFIDENCE"
    ELSE IF st.retry_count >= st.max_retries THEN "RETRY_LIMIT"
    ELSE IF InLog("Parse error", st.error_log) THEN "PARSING_ERROR"
    ELSE "VALIDATION_ERROR"

fallback_reason(st) ==
    IF st.retry_count >= st.max_retries THEN "RETRY_LIMIT"
    ELSE IF InLog("confidence", st.error_log) THEN "LOW_CONFIDENCE"
    ELSE IF InLog("Parse error", st.error_log) THEN "PARSING_ERROR"
    ELSE "VALIDATION_ERROR"

\* datetime.utcnow().isoformat() at clock reading t.
isoformat(t) == [isoformat |-> t]

\* Variant: the item keeps only the latest review.
HumanReviewItem_latest_review(st, now) ==
    [data_id |-> st.data_id,
     original_input |-> st.input_data,
     labeler_attempts |-> st.labeler_attempts,
     critic_reviews |-> <<st.critic_review>>,
     error_log |-> st.error_log,
     fallback_reason |-> fallback_reason(st),
     timestamp |-> isoformat(now)]

\* The item fallback_node builds.
HumanReviewItem(st, now) ==
    [data_id |-> st.data_id,
     original_input |-> st.input_data,
     labeler_attempts |-> st.labeler_attempts,
     critic_reviews |-> st.critic_reviews,
     error_log |-> st.error_log,
     fallback_reason |-> fallback_reason(st),
     timestamp |-> isoformat(now)]

(***************************************************************************)
(* The review queue (fallback.py): one JSON file per item in a directory.  *)
(* A str is the sequence of its code points, so that prefix tests and the  *)
(* order of sorted() are those of Python.                                  *)
(***************************************************************************)
Str(s) ==
    CASE s = "0" -> <<48>>
      [] s = "1" -> <<49>>
      [] s = "10" -> <<49, 48>>
      [] s = "2" -> <<50>>
      [] s = "3" -> <<51>>
      [] s = "4" -> <<52>>
      [] s = "_" -> <<95>>
      [] s = ".json" -> <<46, 106, 115, 111, 110>>

\* utcnow().strftime("%Y%m%d_%H%M%S_%f"): a fixed-width rendering of the
\* clock reading, so that the order of the strings is the order of time.
strftime(t) == <<48 + t>>

\* s < t on str: at the first difference the smaller code point decides, and
\* a proper prefix is smaller.
StrLess(s, t) ==
    \E i \in 1..Len(t) :
        /\ \A j \in 1..(i - 1) : j <= Len(s) /\ s[j] = t[j]
        /\ (i > Len(s) \/ s[i] < t[i])

RECURSIVE sorted(_)
sorted(names) ==
    IF names = {} THEN <<>>
    ELSE LET first == CHOOSE n \in names : \A m \in names \ {n} : StrLess(n, m)
         IN <<first>> \o sorted(names \ {first})

\* Variant: error_log is left out of the dumped object.
json_dump_no_error_log(it) ==
    [json |-> "object",
     members |->
        [data_id |-> [json |-> "string", value |-> it.data_id],
         original_input |-> [json |-> "object", value |-> it.original_input],
         labeler_attempts |-> [json |-> "array", value |-> it.labeler_attempts],
         critic_reviews |-> [json |-> "array", value |-> it.critic_reviews],
         fallback_reason |-> [json |-> "string", value |-> it.fallback_reason],
         timestamp |-> [json |-> "string", value |-> it.timestamp]]]

\* json.dump(item.model_dump(), f): the text holds one object with a member
\* per field, each in the JSON type of the field's value.
json_dump(it) ==
    [json |-> "object",
     members |->
        [data_id |-> [json |-> "string", value |-> it.data_id],
         original_input |-> [json |-> "object", value |-> it.original_input],
         labeler_attempts |-> [json |-> "array", value |-> it.labeler_attempts],
         critic_reviews |-> [json |-> "array", value |-> it.critic_reviews],
         error_log |-> [json |-> "array", value |-> it.error_log],
         fallback_reason |-> [json |-> "string", value |-> it.fallback_reason],
         timestamp |-> [json |-> "string", value |-> it.timestamp]]]

\* What a file holds when json.dump raised after open(path, "w") had
\* created or emptied it.
Truncated == [json |-> "truncated"]

\* json.load(f), then HumanReviewItem(**data): None stands for the exception
\* either of them raises.
json_load(text) ==
    IF text.json /= "object" THEN None
    ELSE [k \in DOMAIN text.members |-> text.members[k].value]

HumanReviewItemFields ==
    {"data_id", "original_input", "labeler_attempts", "critic_reviews",
     "error_log", "fallback_reason", "timestamp"}

HumanReviewItemFrom(data) ==
    IF data = None \/ DOMAIN data /= HumanReviewItemFields THEN None ELSE data

NoCall == [name |-> "none"]

WriteOutcomes == {"ok", "refused", "truncated"}

\* write_to_review_queue: the directory after the call and whether the call
\* raised.  The file name is data_id + "_" + timestamp + ".json"; open(path,
\* "w") replaces a file of that name.  outcome "refused": makedirs or open
\* raised; "truncated": json.dump raised with the file open.
write_to_review_queue(files, it, now, outcome) ==
    LET path == Str(it.data_id) \o Str("_") \o strftime(now) \o Str(".json")
        Put(content) == [n \in DOMAIN files \cup {path} |->
                            IF n = path THEN content ELSE files[n]]
    IN CASE outcome = "ok" -> [raised |-> FALSE, queue |-> Put(json_dump(it))]
         [] outcome = "truncated" -> [raised |-> TRUE, queue |-> Put(Truncated)]
         [] outcome = "refused" -> [raised |-> TRUE, queue |-> files]

\* Variant: the first unreadable entry ends the listing.
RECURSIVE load_files_stop(_, _)
load_files_stop(files, names) ==
    IF names = <<>> THEN <<>>
    ELSE LET fname == Head(names)
             loaded == HumanReviewItemFrom(json_load(files[fname]))
         IN IF endswith(fname, Str(".json")) /\ loaded /= None
            THEN <<loaded>> \o load_files_stop(files, Tail(names))
            ELSE <<>>

RECURSIVE load_files(_, _)
load_files(files, names) ==
    IF names = <<>> THEN <<>>
    ELSE LET fname == Head(names)
             loaded == HumanReviewItemFrom(json_load(files[fname]))
             rest == load_files(files, Tail(names))
         IN IF endswith(fname, Str(".json")) /\ loaded /= None
            THEN <<loaded>> \o rest
            ELSE rest

\* load_review_queue: the readable items in the order of sorted(os.listdir).
load_review_queue(files) == load_files(files, sorted(DOMAIN files))

\* Variant: the confirm flag is not looked at.
clear_review_queue_unconfirmed(files, confirm) ==
    [n \in {m \in DOMAIN files : ~endswith(m, Str(".json"))} |-> files[n]]

\* clear_review_queue: returns at once unless confirm, else removes every
\* .json file.
clear_review_queue(files, confirm) ==
    IF ~confirm THEN files
    ELSE [n \in {m \in DOMAIN files : ~endswith(m, Str(".json"))} |-> files[n]]

\* Variant: only the file named data_id + ".json" is removed.
delete_review_item_exact(files, data_id) ==
    [n \in {m \in DOMAIN files : m /= Str(data_id) \o Str(".json")} |-> files[n]]

\* delete_review_item: removes every .json file whose name starts with
\* data_id.
delete_review_item(files, data_id) ==
    [n \in {m \in DOMAIN files :
                ~(startswith(m, Str(data_id)) /\ endswith(m, Str(".json")))} |->
        files[n]]

NoneTypeError == "'NoneType' object has no attribute 'get'"

\* The node builds the item, writes it inside try/except, then builds its
\* Command.  state.get("critic_review", {}) is None as long as no critic ran
\* (the key exists in the state), and None.get(...) raises out of the node.
fallback_node(st, q, now, outcome) ==
    LET labeler_output == st.labeler_output
        critic_review == st.critic_review
        it == HumanReviewItem(st, now)
        w == write_to_review_queue(q, it, now, outcome)
    IN IF critic_review = None
       THEN [goto |-> "raise", exc |-> NoneTypeError, item |-> it,
             write |-> IF w.raised THEN "failed" ELSE "ok", queue |-> w.queue]
       ELSE [goto |-> "__end__", item |-> it,
             write |-> IF w.raised THEN "failed" ELSE "ok", queue |-> w.queue,
             update |-> [validated_output |->
                            [data_id |-> st.data_id,
                             label |-> labeler_output.label,
                             confidence |-> labeler_output.confidence,
                             reasoning |-> "Sent to human review",
                             critic_confidence |-> critic_review.confidence_score,
                             final_confidence |-> 0,
                             retry_count |-> st.retry_count,
                             fallback_reason |-> fallback_reason(st)]]]

(***************************************************************************)
(* run_labeling_graph                                                      *)
(***************************************************************************)
\* What run_labeling_graph returns when graph.invoke raised.
ErrorResult(data_id, exc) ==
    [data_id |-> data_id, label |-> "ERROR", confidence |-> 0,
     reasoning |-> <<"Graph error: ", exc>>, critic_confidence |-> 0,
     final_confidence |-> 0, retry_count |-> 0]

(***************************************************************************)
(* run_labeling_graph: the initial state.                                  *)
(***************************************************************************)
initial_state(max_retries) ==
    [data_id |-> "1",
     input_data |-> [text_content |-> "t", image_path |-> "", modality |-> "TEXT"],
     modality |-> "TEXT",
     task_type |-> "sentiment",
     labeler_output |-> None,
     critic_review |-> None,
     retry_count |-> 0,
     max_retries |-> max_retries,
     validated_output |-> None,
     fallback_to_human |-> FALSE,
     error_log |-> <<>>,
     image_data |-> None,
     labeler_attempts |-> <<>>,
     critic_reviews |-> <<>>]

\* The nodes build_graph adds to the graph.
Nodes == {"labeler_node", "critic_node", "validator_node", "fallback_node"}

\* The configs a run is given: the defaults with each retry limit, and a
\* config of its own threshold and review-queue directory.
LenientThreshold == 60

Configs ==
    {[get_config EXCEPT !.max_retries = m] : m \in 0..MaxRetriesBound}
    \cup {[max_retries |-> 0, min_confidence_threshold |-> LenientThreshold,
            review_queue_dir |-> "tmp/review_queue"]}

Init ==
    /\ pc = "labeler_node"
    /\ config \in Configs
    /\ state = initial_state(config.max_retries)
    /\ entered = [node \in Nodes |-> 0]
    /\ gw = <<>>
    /\ item = None
    /\ write = "none"
    /\ queue = <<>>
    /\ result = None
    /\ clock = 0
    /\ op = NoCall
    /\ batch = None
    /\ decode = None

Labeler ==
    /\ pc = "labeler_node"
    /\ \E r1 \in LabelerResponses, r2 \in LabelerResponses :
         LET cmd == labeler_node(state, <<r1, r2>>)
             prompt == get_labeling_prompt(state.task_type,
                                           state.input_data.text_content,
                                           critic_feedback(state))
         IN /\ pc' = cmd.goto
            /\ state' = cmd.update @@ state
            /\ gw' = Calls(prompt, <<r1, r2>>, LabelerAttempt(r1, 1).out /= None)
    /\ UNCHANGED <<item, write, queue, result, clock, op>>
    /\ entered' = [entered EXCEPT ![pc] = @ + 1]
    /\ UNCHANGED <<batch, decode, config>>

Critic ==
    /\ pc = "critic_node"
    /\ \E r1 \in CriticResponses(Len(state.labeler_attempts)),
          r2 \in CriticResponses(Len(state.labeler_attempts)) :
         LET cmd == critic_node(state, <<r1, r2>>)
             prompt == [role |-> "critic", label |-> state.labeler_output.label]
         IN /\ pc' = cmd.goto
            /\ state' = cmd.update @@ state
            /\ gw' = Calls(prompt, <<r1, r2>>, CriticAttempt(r1, 1).out /= None)
    /\ UNCHANGED <<item, write, queue, result, clock, op>>
    /\ entered' = [entered EXCEPT ![pc] = @ + 1]
    /\ UNCHANGED <<batch, decode, config>>

Validator ==
    /\ pc = "validator_node"
    /\ LET cmd == validator_node(state)
       IN /\ pc' = cmd.goto
          /\ state' = cmd.update @@ state
    /\ UNCHANGED <<gw, item, write, queue, result, clock, op>>
    /\ entered' = [entered EXCEPT ![pc] = @ + 1]
    /\ UNCHANGED <<batch, decode, config>>

Fallback ==
    /\ pc = "fallback_node"
    /\ \E outcome \in WriteOutcomes :
         LET cmd == fallback_node(state, queue, clock, outcome)
         IN /\ pc' = cmd.goto
            /\ item' = cmd.item
            /\ write' = cmd.write
            /\ queue' = cmd.queue
            /\ state' = IF cmd.goto = "raise" THEN state ELSE cmd.update @@ state
    /\ UNCHANGED <<gw, result, clock, op>>
    /\ entered' = [entered EXCEPT ![pc] = @ + 1]
    /\ UNCHANGED <<batch, decode, config>>

\* graph.invoke has ended or raised: run_labeling_graph returns.
Return ==
    /\ pc \in {"__end__", "raise"}
    /\ result' = IF pc = "raise" THEN ErrorResult(state.data_id, NoneTypeError)
                                 ELSE state.validated_output
    /\ pc' = "returned"
    /\ UNCHANGED <<state, gw, item, write, queue, clock, op>>
    /\ UNCHANGED <<batch, decode, config, entered>>

Next == Labeler \/ Critic \/ Validator \/ Fallback \/ Return

Spec == Init /\ [][Next]_vars

(***************************************************************************)
(* The review queue under the calls of several runs and of the review     *)
(* page: fallback_node of each escalated run writes, the page lists,       *)
(* deletes and clears.  Time may or may not advance between two calls.     *)
(***************************************************************************)
DataIds == {"1", "10", "2"}

\* The states in which two runs for data_id reach fallback_node: one whose
\* validator found the confidence too low, one whose critic rejected the
\* label and its one retry.
EscalatedRuns(data_id) ==
    LET s0 == [initial_state(1) EXCEPT !.data_id = data_id]
        label == Text("json", [label |-> "POSITIVE", confidence |-> 90,
                               reasoning |-> "r"])
        accept == Text("json", [is_correct |-> TRUE, confidence_score |-> 60,
                                critique |-> "Label is correct"])
        reject == Text("json", [is_correct |-> FALSE, confidence_score |-> 60,
                                critique |-> "wrong"])
        s1 == labeler_node(s0, <<label, label>>).update @@ s0
        a2 == critic_node(s1, <<accept, accept>>).update @@ s1
        a3 == validator_node(a2).update @@ a2
        r2 == critic_node(s1, <<reject, reject>>).update @@ s1
        r3 == labeler_node(r2, <<label, label>>).update @@ r2
        r4 == critic_node(r3, <<reject, reject>>).update @@ r3
    IN {a3, r4}

InitStore ==
    /\ pc = "idle"
    /\ state = None
    /\ config = None
    /\ entered = None
    /\ gw = <<>>
    /\ item = None
    /\ write = "none"
    /\ queue = <<>>
    /\ result = None
    /\ clock = 0
    /\ op = NoCall
    /\ batch = None
    /\ decode = None

\* fallback_node of some escalated run calls write_to_review_queue.
Write ==
    /\ Cardinality(DOMAIN queue) < MaxFiles
    /\ \E data_id \in DataIds, outcome \in WriteOutcomes :
         \E st \in EscalatedRuns(data_id) :
            LET it == HumanReviewItem(st, clock)
                w == write_to_review_queue(queue, it, clock, outcome)
            IN /\ queue' = w.queue
               /\ op' = [name |-> "write", item |-> it, raised |-> w.raised]
    /\ UNCHANGED <<pc, state, gw, item, write, result, clock>>
    /\ UNCHANGED <<batch, decode, config, entered>>

ListAll ==
    /\ op' = [name |-> "list_all", result |-> load_review_queue(queue)]
    /\ UNCHANGED <<pc, state, gw, item, write, queue, result, clock>>
    /\ UNCHANGED <<batch, decode, config, entered>>

Delete ==
    /\ \E data_id \in DataIds :
         /\ queue' = delete_review_item(queue, data_id)
         /\ op' = [name |-> "delete", data_id |-> data_id]
    /\ UNCHANGED <<pc, state, gw, item, write, result, clock>>
    /\ UNCHANGED <<batch, decode, config, entered>>

Clear ==
    /\ \E confirm \in BOOLEAN :
         /\ queue' = clear_review_queue(queue, confirm)
         /\ op' = [name |-> "clear", confirm |-> confirm]
    /\ UNCHANGED <<pc, state, gw, item, write, result, clock>>
    /\ UNCHANGED <<batch, decode, config, entered>>

Tick ==
    /\ clock < MaxClock
    /\ clock' = clock + 1
    /\ UNCHANGED <<pc, state, gw, item, write, queue, result, op>>
    /\ UNCHANGED <<batch, decode, config, entered>>

NextStore == Write \/ ListAll \/ Delete \/ Clear \/ Tick

SpecStore == InitStore /\ [][NextStore]_vars

(***************************************************************************)
(* LabelingTool.run: the batch driver.                                     *)
(***************************************************************************)
Returned(value) == [kind |-> "return", value |-> value]

\* What a call of run_labeling_graph for data_id can do: return the record
\* of a validated run, of an escalated run, or the ERROR record it builds
\* when graph.invoke raised; or raise itself, from get_config or get_graph,
\* which it calls before its try.
run_labeling_graph_outcomes(data_id) ==
    LET s0 == [initial_state(1) EXCEPT !.data_id = data_id]
        label == Text("json", [label |-> "POSITIVE", confidence |-> 90,
                               reasoning |-> "r"])
        accept == Text("json", [is_correct |-> TRUE, confidence_score |-> 100,
                                critique |-> "Label is correct"])
        s1 == labeler_node(s0, <<label, label>>).update @@ s0
        s2 == critic_node(s1, <<accept, accept>>).update @@ s1
    IN {Returned(validator_node(s2).update.validated_output),
        Returned(ErrorResult(data_id, NoneTypeError)),
        Raise("graph build failed")}
       \cup {Returned(fallback_node(st, <<>>, 0, "ok").update.validated_output) :
                st \in EscalatedRuns(data_id)}

\* Variant: the except branch labels its record UNKNOWN.
item_result_unknown(idx, outcome) ==
    IF outcome.kind = "raise"
    THEN [data_id |-> ToString(idx), label |-> "UNKNOWN", confidence |-> 0,
          reasoning |-> outcome.msg, final_confidence |-> 0, retry_count |-> 0]
    ELSE outcome.value

\* The record the loop appends for a row: the returned one, or the one the
\* except branch builds.
item_result(idx, outcome) ==
    IF outcome.kind = "raise"
    THEN [data_id |-> ToString(idx), label |-> "ERROR", confidence |-> 0,
          reasoning |-> outcome.msg, final_confidence |-> 0, retry_count |-> 0]
    ELSE outcome.value

\* Variant: the fraction is taken before the item is counted.
progress_fraction_before(i, total) == [num |-> i, den |-> total]

\* (i + 1) / total, as a fraction.
progress_fraction(i, total) == [num |-> i + 1, den |-> total]

RECURSIVE sum_final_confidence(_)
sum_final_confidence(results) ==
    IF results = <<>> THEN 0
    ELSE Head(results).final_confidence + sum_final_confidence(Tail(results))

metadata(results, total) ==
    [total_rows |-> total,
     labeled |-> Cardinality({k \in 1..Len(results) : results[k].label /= "ERROR"}),
     fallback_count |->
        Cardinality({k \in 1..Len(results) : "fallback_reason" \in DOMAIN results[k]}),
     avg_confidence |-> [num |-> sum_final_confidence(results),
                         den |-> IF Len(results) > 1 THEN Len(results) ELSE 1]]

\* run is called on a DataFrame that validate_input accepted (at least one
\* row), with the default index 0 .. n-1, with or without a callback.
InitBatch ==
    /\ pc = "idle"
    /\ state = None
    /\ config = None
    /\ entered = None
    /\ gw = <<>>
    /\ item = None
    /\ write = "none"
    /\ queue = <<>>
    /\ result = None
    /\ clock = 0
    /\ op = NoCall
    /\ decode = None
    /\ \E n \in 1..MaxItems, progress_callback \in BOOLEAN :
         batch = [rows |-> [k \in 1..n |-> k - 1],
                  progress_callback |-> progress_callback,
                  i |-> 0, runs |-> <<>>, results |-> <<>>, errors |-> <<>>,
                  progress |-> <<>>, returned |-> None]

\* One pass of the loop over df.iterrows().
RunItem ==
    /\ batch.returned = None
    /\ batch.i < Len(batch.rows)
    /\ LET idx == batch.rows[batch.i + 1]
           total == Len(batch.rows)
       IN \E outcome \in run_labeling_graph_outcomes(ToString(idx)) :
            batch' = [batch EXCEPT
                        !.runs = Append(@, outcome),
                        !.results = Append(@, item_result(idx, outcome)),
                        !.errors = IF outcome.kind = "raise"
                                   THEN Append(@, <<"Row ", idx, outcome.msg>>)
                                   ELSE @,
                        !.progress =
                            IF batch.progress_callback
                            THEN Append(@, [fraction |-> progress_fraction(batch.i, total),
                                            message |-> <<"Labeled ", batch.i + 1, "/",
                                                          total, " items...">>])
                            ELSE @,
                        !.i = @ + 1]
    /\ UNCHANGED <<pc, state, gw, item, write, queue, result, clock, op, decode,
                 config, entered>>

\* The loop is over: run merges the results and returns its ToolResult.
ReturnBatch ==
    /\ batch.returned = None
    /\ batch.i = Len(batch.rows)
    /\ batch' = [batch EXCEPT
                    !.returned = [success |-> TRUE,
                                  data |-> batch.results,
                                  metadata |-> metadata(batch.results, Len(batch.rows)),
                                  errors |-> batch.errors]]
    /\ UNCHANGED <<pc, state, gw, item, write, queue, result, clock, op, decode,
                 config, entered>>

NextBatch == RunItem \/ ReturnBatch

SpecBatch == InitBatch /\ [][NextBatch]_vars

(***************************************************************************)
(* The decoders, each called on a text.                                    *)
(***************************************************************************)
InitDecode ==
    /\ pc = "idle"
    /\ state = None
    /\ config = None
    /\ entered = None
    /\ gw = <<>>
    /\ item = None
    /\ write = "none"
    /\ queue = <<>>
    /\ result = None
    /\ clock = 0
    /\ op = NoCall
    /\ batch = None
    /\ \E raw_text \in Texts :
         decode = [raw_text |-> raw_text, by |-> "none", out |-> None]

SafeParseJson ==
    /\ decode.by = "none"
    /\ decode' = [decode EXCEPT !.by = "_safe_parse_json",
                                !.out = _safe_parse_json(decode.raw_text)]
    /\ UNCHANGED <<pc, state, gw, item, write, queue, result, clock, op, batch,
                 config, entered>>

ParseLlmJson ==
    /\ decode.by = "none"
    /\ decode' = [decode EXCEPT !.by = "parse_llm_json",
                                !.out = parse_llm_json(decode.raw_text)]
    /\ UNCHANGED <<pc, state, gw, item, write, queue, result, clock, op, batch,
                 config, entered>>

NextDecode == SafeParseJson \/ ParseLlmJson

SpecDecode == InitDecode /\ [][NextDecode]_vars

(***************************************************************************)
(* Properties of a run.                                                    *)
(***************************************************************************)
Last(s) == s[Len(s)]

ValidatedLabelProduced ==
    /\ state.validated_output /= None
    /\ "fallback_reason" \notin DOMAIN state.validated_output

HumanReviewItemProduced == item /= None

LabelingHasRun == gw /= <<>>

\* The latest gateway calls are two calls of the given role, neither of
\* which yielded a decodable object (the call raised or the text held none).
Undecoded(calls, role) ==
    /\ Len(calls) = 2
    /\ \A i \in 1..2 :
         /\ calls[i].prompt.role = role
         /\ \/ calls[i].response.kind = "raise"
            \/ /\ calls[i].response.kind = "text"
               /\ safe_parse_json(calls[i].response.content) = None

\* Both calls returned text, and the text was unparseable.
Unparseable(calls, role) ==
    /\ Undecoded(calls, role)
    /\ \A i \in 1..2 : calls[i].response.kind = "text"

LabelerFailed ==
    /\ Len(state.error_log) > 0
    /\ Last(state.error_log) = LabelerAllFailed

ValidatorEscalated ==
    /\ Len(state.error_log) > 0
    /\ Last(state.error_log).text = "Validator: confidence below threshold"

AllRejected ==
    \A i \in 1..Len(state.critic_reviews) : ~state.critic_reviews[i].is_correct

C2_RetryStep ==
    state'.retry_count /= state.retry_count =>
        /\ pc = "critic_node"
        /\ state'.retry_count = state.retry_count + 1
        /\ state.retry_count < state.max_retries
        /\ ~state'.critic_review.is_correct

C2_RetryBounded ==
    /\ state.retry_count = 0
    /\ [](state.retry_count <= state.max_retries)
    /\ [][C2_RetryStep]_vars

C2_Witness ==
    /\ pc = "labeler_node"
    /\ state.max_retries = MaxRetriesBound
    /\ state.retry_count = state.max_retries

\* C3: when the critic has rejected on every one of its max_retries + 1
\* attempts, the run escalates with reason RETRY_LIMIT, retry_count equals
\* max_retries and labeler_attempts has max_retries + 1 entries.
C3_RejectedThroughout ==
    /\ pc = "returned"
    /\ AllRejected
    /\ Len(state.critic_reviews) = state.max_retries + 1

C3_RetryLimit ==
    C3_RejectedThroughout =>
        /\ HumanReviewItemProduced
        /\ item.fallback_reason = "RETRY_LIMIT"
        /\ "fallback_reason" \in DOMAIN result
        /\ result.fallback_reason = "RETRY_LIMIT"
        /\ state.retry_count = state.max_retries
        /\ result.retry_count = state.max_retries
        /\ Len(state.labeler_attempts) = state.max_retries + 1
        /\ Len(item.labeler_attempts) = state.max_retries + 1

C3_Witness ==
    /\ C3_RejectedThroughout
    /\ state.max_retries = MaxRetriesBound
    /\ InLog("confidence", state.error_log)

\* C4: when the gateway returns unparseable text for both local attempts of
\* the first labeler_node entry, the run escalates with fallback_reason
\* PARSING_ERROR and the HumanReviewItem has no critic review.  Stated for
\* runs with a positive retry budget.
C4_ParsingErrorOnFirstEntry ==
    (/\ pc = "returned"
     /\ state.max_retries > 0
     /\ Unparseable(gw, "labeler")
     /\ state.retry_count = 0) =>
        /\ HumanReviewItemProduced
        /\ item.fallback_reason = "PARSING_ERROR"
        /\ Len(item.critic_reviews) = 0
        /\ "fallback_reason" \in DOMAIN result
        /\ result.fallback_reason = "PARSING_ERROR"

\* C5: whenever validator_node finds final_confidence below the threshold,
\* at any retry_count, only fallback_node runs afterwards and the recorded
\* fallback_reason is LOW_CONFIDENCE.  Stated for runs with a positive retry
\* budget.
C5_LowConfidenceReason ==
    (ValidatorEscalated /\ state.max_retries > 0) =>
        /\ pc \in {"fallback_node", "__end__", "returned"}
        /\ HumanReviewItemProduced => item.fallback_reason = "LOW_CONFIDENCE"

\* C6: in every ValidatedLabel, final_confidence is the floor of the mean of
\* the latest LabelPrediction's confidence and the latest CriticReview's
\* confidence_score, and these two are the values the record carries.
C6_FloorOfMean ==
    ValidatedLabelProduced =>
        LET v == state.validated_output
            l == Last(state.labeler_attempts).confidence
            c == Last(state.critic_reviews).confidence_score
        IN /\ v.confidence = l
           /\ v.critic_confidence = c
           /\ 2 * v.final_confidence <= l + c
           /\ l + c < 2 * v.final_confidence + 2

C6_Witness ==
    /\ ValidatedLabelProduced
    /\ state.retry_count > 0
    /\ (Last(state.labeler_attempts).confidence
        + Last(state.critic_reviews).confidence_score) % 2 = 1

\* C7: final_confidence lies in [0,100] for every LabelPrediction and
\* CriticReview the stages accept.
C7_FinalConfidenceInRange ==
    ValidatedLabelProduced =>
        /\ state.validated_output.final_confidence >= 0
        /\ state.validated_output.final_confidence <= 100

\* C8: when neither local attempt of critic_node yields a decodable review,
\* the node does not go to fallback: it records and appends the review
\* (is_correct = true, confidence_score = 70), leaves retry_count unchanged
\* and goes to validator_node.
C8_Step ==
    (pc = "critic_node" /\ Undecoded(gw', "critic")) =>
        /\ pc' = "validator_node"
        /\ state'.critic_review.is_correct = TRUE
        /\ state'.critic_review.confidence_score = 70
        /\ state'.critic_reviews = Append(state.critic_reviews, state'.critic_review)
        /\ state'.retry_count = state.retry_count

C8_CriticDefaultAccept == [][C8_Step]_vars

C8_Witness ==
    /\ pc = "validator_node"
    /\ Undecoded(gw, "critic")
    /\ state.retry_count > 0

\* C9 (as claimed): in every state in which labeler_node has run at least
\* once, len(labeler_attempts) = retry_count + 1.
C9_AttemptsAlwaysRetryPlusOne ==
    LabelingHasRun => Len(state.labeler_attempts) = state.retry_count + 1

\* C9 (amended): len(labeler_attempts) = retry_count + 1 whenever the latest
\* labeler_node entry appended a prediction and no re-label is pending; it
\* equals retry_count while a labeler_node entry is pending and after an
\* entry that failed both local attempts.
C9_AttemptsMatchRetries ==
    Len(state.labeler_attempts) =
        state.retry_count + (IF pc = "labeler_node" \/ LabelerFailed THEN 0 ELSE 1)

C9_Witness ==
    /\ pc = "returned"
    /\ LabelerFailed
    /\ state.retry_count > 0
    /\ Len(state.labeler_attempts) = state.retry_count

\* C10: a failed review-queue write does not propagate: the run still
\* returns the degraded record with final_confidence = 0, the recorded
\* fallback_reason and the run's retry_count.  Stated for runs with a
\* positive retry budget.
C10_WriteFailureSwallowed ==
    (pc = "returned" /\ write = "failed" /\ state.max_retries > 0) =>
        /\ "fallback_reason" \in DOMAIN result
        /\ result.final_confidence = 0
        /\ result.fallback_reason = item.fallback_reason
        /\ result.retry_count = state.retry_count

\* C11: a run writes its HumanReviewItem to the review queue if and only if
\* it escalated: the store changes only in fallback_node, which makes exactly
\* one write attempt, and a run that ends with a ValidatedLabel leaves the
\* store as it was.
C11_WriteStep ==
    (queue' /= queue \/ write' /= write) =>
        /\ pc = "fallback_node"
        /\ write = "none"
        /\ write' \in {"ok", "failed"}
        /\ load_review_queue(queue') =
              IF write' = "ok" THEN Append(load_review_queue(queue), item')
                               ELSE load_review_queue(queue)

C11_Ended ==
    pc \in {"__end__", "raise", "returned"} =>
        /\ state.fallback_to_human <=> write /= "none"
        /\ HumanReviewItemProduced <=> write /= "none"
        /\ ValidatedLabelProduced => (write = "none" /\ DOMAIN queue = {})

C11_WrittenIffEscalated == [](C11_Ended) /\ [][C11_WriteStep]_vars

C11_Witness ==
    /\ pc = "returned"
    /\ write = "ok"
    /\ load_review_queue(queue) = <<item>>
    /\ state.fallback_to_human

\* Both local attempts of the latest gateway-calling node ended in a gateway
\* failure (llm.invoke raised).
GatewayFailedTwice(role) ==
    /\ Len(gw) = 2
    /\ \A i \in 1..2 : gw[i].prompt.role = role /\ gw[i].response.kind = "raise"

\* C19: a gateway failure or timeout counts as a failed local attempt of its
\* stage: two failures in labeler_node escalate the item through
\* fallback_node, two failures in critic_node yield the default-accept
\* review, and the run ends with a ValidatedLabel or an escalation record,
\* never with anything else.
C19_GatewayFailureIsDecodeFailure ==
    /\ GatewayFailedTwice("labeler") =>
          /\ state.fallback_to_human
          /\ pc \in {"fallback_node", "__end__", "returned"}
          /\ pc = "returned" =>
                (HumanReviewItemProduced /\ "fallback_reason" \in DOMAIN result)
    /\ GatewayFailedTwice("critic") =>
          /\ Last(state.critic_reviews).is_correct
          /\ Last(state.critic_reviews).confidence_score = 70
          /\ pc = "returned" => result.label /= "ERROR"
(***************************************************************************)
(* Properties of the review queue.                                         *)
(***************************************************************************)
Listed(files, it) ==
    \E i \in 1..Len(load_review_queue(files)) :
        \A f \in HumanReviewItemFields : load_review_queue(files)[i][f] = it[f]

C13_NoOverwrite ==
    [][(op'.name = "write" /\ ~op'.raised /\ op' /= op) =>
          Len(load_review_queue(queue')) = Len(load_review_queue(queue)) + 1]_vars

\* C14: after delete_review_item(data_id) no file of the directory has a
\* name that starts with data_id, and the listing holds no item with that
\* data_id.
C14_DeleteRemovesAll ==
    op.name = "delete" =>
        /\ \A n \in DOMAIN queue : ~startswith(n, Str(op.data_id))
        /\ \A i \in 1..Len(load_review_queue(queue)) :
              load_review_queue(queue)[i].data_id /= op.data_id

C14_Witness ==
    /\ op.name = "delete" /\ op.data_id = "2"
    /\ Len(load_review_queue(queue)) = 2

\* C15: clear_review_queue(confirm) leaves the directory as it is when
\* confirm is false, and leaves no entry when confirm is true.
C15_ClearOnlyConfirmed ==
    [][op'.name = "clear" =>
          IF op'.confirm THEN load_review_queue(queue') = <<>> /\ DOMAIN queue' = {}
                         ELSE queue' = queue]_vars

C15_Witness ==
    op.name = "clear" /\ ~op.confirm /\ Len(load_review_queue(queue)) = 2

Readable(files) == {n \in DOMAIN files : files[n].json = "object"}

\* C16: load_review_queue returns, whatever the directory holds: its result
\* is the items of the readable files in the order of their names, the
\* unreadable ones are skipped, and the directory is as before the call.
C16_Listing ==
    op.name = "list_all" =>
        LET names == sorted(Readable(queue))
        IN op.result = [i \in 1..Len(names) |-> json_load(queue[names[i]])]

C16_ListStep == op'.name = "list_all" => queue' = queue

C16_ListAllSkipsCorrupt == [](C16_Listing) /\ [][C16_ListStep]_vars

C16_Witness ==
    /\ op.name = "list_all" /\ Len(op.result) = 2
    /\ \E n \in DOMAIN queue, m \in DOMAIN queue :
          queue[n] = Truncated /\ queue[m] /= Truncated /\ StrLess(n, m)

(***************************************************************************)
(* Properties of the batch driver.                                         *)
(***************************************************************************)
\* C17: LabelingTool.run holds one result per row it has gone through, in
\* the order of the rows; the result of a row whose run raised has label
\* ERROR, confidence 0 and final_confidence 0, the result of any other row
\* is the record its run returned, and run returns only after every row.
C17_OneResultPerItem ==
    /\ Len(batch.results) = batch.i
    /\ Len(batch.runs) = batch.i
    /\ \A k \in 1..Len(batch.results) :
          /\ batch.results[k].data_id = ToString(batch.rows[k])
          /\ batch.runs[k].kind = "raise" =>
                /\ batch.results[k].label = "ERROR"
                /\ batch.results[k].confidence = 0
                /\ batch.results[k].final_confidence = 0
          /\ batch.runs[k].kind = "return" => batch.results[k] = batch.runs[k].value
    /\ batch.returned /= None =>
          /\ Len(batch.results) = Len(batch.rows)
          /\ batch.returned.data = batch.results

C17_Witness ==
    /\ batch.returned /= None
    /\ Len(batch.rows) = 3
    /\ batch.runs[1].kind = "raise"
    /\ batch.results[1].label = "ERROR"
    /\ batch.results[2].label /= "ERROR"
    /\ "fallback_reason" \in DOMAIN batch.results[3]

FractionLess(a, b) == a.num * b.den < b.num * a.den

\* C18: with a progress callback, the driver has reported once per row it
\* has gone through, whatever the row's outcome; the k-th report (k from 1)
\* carries the fraction k / total, the fractions increase strictly, and the
\* last report before run returns carries 1.
C18_ProgressAfterEachItem ==
    batch.progress_callback =>
        /\ Len(batch.progress) = batch.i
        /\ \A k \in 1..Len(batch.progress) :
              batch.progress[k].fraction = [num |-> k, den |-> Len(batch.rows)]
        /\ \A k \in 1..(Len(batch.progress) - 1) :
              FractionLess(batch.progress[k].fraction, batch.progress[k + 1].fraction)
        /\ batch.returned /= None =>
              /\ Len(batch.progress) = Len(batch.rows)
              /\ Last(batch.progress).fraction.num = Last(batch.progress).fraction.den

C18_Witness ==
    /\ batch.progress_callback
    /\ batch.returned /= None
    /\ Len(batch.progress) = 3
    /\ batch.runs[1].kind = "raise"
    /\ "fallback_reason" \in DOMAIN batch.results[2]
    /\ batch.results[3].label = "POSITIVE"

(***************************************************************************)
(* Properties of the decoders.                                             *)
(***************************************************************************)
\* C20: a decoder called on a text does not raise, and what it returns is a
\* decoded structured object (a JSON object or array) or None.
C20_DecodeObjectOrNone ==
    decode.by /= "none" =>
        \/ decode.out = None
        \/ /\ decode.out.kind = "value"
           /\ decode.out.json \in {"object", "array"}

\* The five strategies in their order, each applied to the stripped text:
\* direct parse, fenced block, first {...} span, first [...] span, and the
\* {...} span of the repaired text.
FiveStrategies(raw) ==
    LET text == strip(raw)
        block == fenced_block(text)
        braces == span(text, "{", "}")
        brackets == span(text, "[", "]")
        repaired == span(double_quotes(drop_trailing_commas(text)), "{", "}")
    IN <<TryLoads(text),
         IF block.matched THEN TryLoads(strip(block.group)) ELSE None,
         IF braces.matched THEN TryLoads(braces.group) ELSE None,
         IF brackets.matched THEN TryLoads(brackets.group) ELSE None,
         IF repaired.matched THEN TryLoads(repaired.group) ELSE None>>

\* C21: each decoder, parse_llm_json and the one the stages call, returns
\* the result of the first of the five strategies (direct parse, fenced
\* block, {...} span, [...] span, lenient repair) that parses, and None when
\* none does.
C21_FirstOfFiveStrategies ==
    decode.by /= "none" => decode.out = FirstOf(FiveStrategies(decode.raw_text))

CriticEscalated ==
    /\ Len(state.error_log) > 0
    /\ Last(state.error_log) = CriticMaxRetries

\* C22: the fallback_reason recorded by fallback_node is the reason of the
\* transition that triggered it: RETRY_LIMIT only after critic_node rejected
\* at the retry limit, LOW_CONFIDENCE only after validator_node found the
\* final confidence below the threshold, PARSING_ERROR only after
\* labeler_node failed both attempts.
C22_ReasonOfTrigger ==
    HumanReviewItemProduced =>
        /\ item.fallback_reason = "RETRY_LIMIT" =>
              /\ CriticEscalated
              /\ ~state.critic_review.is_correct
              /\ state.retry_count >= state.max_retries
        /\ item.fallback_reason = "LOW_CONFIDENCE" => ValidatorEscalated
        /\ item.fallback_reason = "PARSING_ERROR" => LabelerFailed

\* C23: when the critic rejects and retry_count < max_retries the next stage
\* is labeler_node, and the prompt of every call of that entry carries the
\* critique of that most recent rejection as feedback; the prompt of the
\* first entry of a run carries no feedback.
C23_CriticStep ==
    (pc = "critic_node" /\ pc' /= pc /\ ~state'.critic_review.is_correct
        /\ state.retry_count < state.max_retries)
    => pc' = "labeler_node"

C23_LabelerStep ==
    (pc = "labeler_node" /\ pc' /= pc) =>
        \A i \in 1..Len(gw') :
            gw'[i].prompt.feedback_block =
                IF state.critic_reviews = <<>>
                THEN <<>>
                ELSE <<"PREVIOUS ATTEMPT FEEDBACK (incorporate this into your new label):",
                       Last(state.critic_reviews).critique>>

C23_FeedbackOnRetry ==
    [][C23_CriticStep /\ C23_LabelerStep]_vars

C23_Witness ==
    /\ pc = "critic_node"
    /\ state.retry_count = 2
    /\ gw[1].prompt.feedback_block[2] = Critique(2)
    /\ state.critic_reviews[1].critique = Critique(1)

(***************************************************************************)
(* A run under the assumption that every gateway call returns or fails:    *)
(* the node that is running always completes its step, and                 *)
(* run_labeling_graph returns once the graph has ended or raised.          *)
(***************************************************************************)
InitLive ==
    /\ Init
    /\ config.max_retries <= MaxRetriesLive

SpecLive == InitLive /\ [][Next]_vars /\ WF_vars(Next)

\* The response yields the node's output: an object, and for the labeler
\* one that LabelPrediction accepts.
Usable(call) ==
    /\ call.response.kind = "text"
    /\ safe_parse_json(call.response.content) /= None
    /\ call.prompt.role = "labeler" =>
          ValidLabelPrediction(safe_parse_json(call.response.content))

C24_EntriesBounded ==
    /\ entered["labeler_node"] <= state.max_retries + 1
    /\ entered["critic_node"] <= state.max_retries + 1
    /\ entered["validator_node"] <= 1
    /\ entered["fallback_node"] <= 1

C24_CallsStep ==
    (pc \in {"labeler_node", "critic_node"} /\ pc' /= pc) =>
        /\ Len(gw') \in 1..2
        /\ \A i \in 1..(Len(gw') - 1) : ~Usable(gw'[i])

\* C24: every run returns, after at most max_retries + 1 entries to
\* labeler_node and to critic_node, each making at most two gateway calls
\* and none after a call that yielded its output, and at most one entry
\* each to validator_node and fallback_node.
C24_Terminates ==
    /\ <>(pc = "returned")
    /\ [](C24_EntriesBounded)
    /\ [][C24_CallsStep]_vars

C24_Witness ==
    /\ pc = "returned"
    /\ state.max_retries = MaxRetriesLive
    /\ entered["labeler_node"] = state.max_retries + 1
    /\ entered["critic_node"] = state.max_retries + 1
    /\ entered["validator_node"] = 1
    /\ entered["fallback_node"] = 1

\* C25: the HumanReviewItem of an escalation holds, in order, every
\* LabelPrediction appended during the run, every CriticReview produced
\* during the run (the default accept included) and the complete error_log,
\* whose last entry is the one logged by the stage that escalated.
C25_HistoryStep ==
    /\ (pc = "labeler_node" /\ pc' = "critic_node") =>
          state'.labeler_attempts =
              Append(state.labeler_attempts, state'.labeler_output)
    /\ ~(pc = "labeler_node" /\ pc' = "critic_node") =>
          state'.labeler_attempts = state.labeler_attempts
    /\ (pc = "critic_node" /\ pc' /= pc) =>
          /\ state'.critic_reviews =
                Append(state.critic_reviews, state'.critic_review)
          /\ Undecoded(gw', "critic") => state'.critic_review = DefaultReview
    /\ ~(pc = "critic_node" /\ pc' /= pc) =>
          state'.critic_reviews = state.critic_reviews

C25_ItemStep ==
    (pc = "fallback_node" /\ pc' /= pc) =>
        /\ item'.labeler_attempts = state.labeler_attempts
        /\ item'.critic_reviews = state.critic_reviews
        /\ item'.error_log = state.error_log
        /\ LabelerFailed \/ CriticEscalated \/ ValidatorEscalated

C25_ItemHoldsHistory ==
    [][C25_HistoryStep /\ C25_ItemStep]_vars

C25_Witness ==
    /\ HumanReviewItemProduced
    /\ Len(item.labeler_attempts) = 2
    /\ Len(item.critic_reviews) = 2
    /\ ~item.critic_reviews[1].is_correct
    /\ item.critic_reviews[2] = DefaultReview
    /\ Last(item.error_log).text = "Validator: confidence below threshold"

IsPrefix(s, t) ==
    /\ Len(s) <= Len(t)
    /\ \A i \in 1..Len(s) : t[i] = s[i]

\* C26: error_log is append-only within a run: after every step the new
\* error_log has the previous one as a prefix.
C26_AppendOnly ==
    [][IsPrefix(state.error_log, state'.error_log)]_vars

C26_Witness ==
    /\ pc = "fallback_node"
    /\ Len(state.error_log) = 4
    /\ state.error_log[1].text = "Labeler attempt failed: "
    /\ state.error_log[2].text = "Critic attempt failed: "
    /\ state.error_log[4].text = "Validator: confidence below threshold"

\* run_labeling_graph has returned a record without fallback_reason whose
\* label is not ERROR.
SuccessfulRecord ==
    /\ pc = "returned"
    /\ result.label /= "ERROR"
    /\ "fallback_reason" \notin DOMAIN result

C27_Successful ==
    SuccessfulRecord =>
        /\ Last(state.critic_reviews).is_correct
        /\ result.final_confidence >= min_confidence_threshold
        /\ result.retry_count + 1 = Len(state.labeler_attempts)
        /\ result.retry_count + 1 = Len(state.critic_reviews)

C27_AtThreshold ==
    (/\ pc = "validator_node"
     /\ pc' /= pc
     /\ final_confidence(state.labeler_output.confidence,
                         state.critic_review.confidence_score)
            = min_confidence_threshold)
    => /\ pc' = "__end__"
       /\ state'.validated_output.final_confidence = min_confidence_threshold
       /\ "fallback_reason" \notin DOMAIN state'.validated_output

\* C27: a run returns a successful record only if the latest CriticReview
\* is an accept and final_confidence >= min_confidence_threshold; a final
\* confidence equal to the threshold is accepted; in the record
\* retry_count + 1 = len(labeler_attempts) = len(critic_reviews).
C27_SuccessOnlyAboveThreshold ==
    /\ [](C27_Successful)
    /\ [][C27_AtThreshold]_vars

C27_Witness ==
    /\ SuccessfulRecord
    /\ result.final_confidence = min_confidence_threshold
    /\ result.retry_count = 1
    /\ Len(state.critic_reviews) = 2

\* The directory fallback_node's write goes to: it hands get_config() to
\* write_to_review_queue.
fallback_review_queue_dir == get_config.review_queue_dir

C28_ValidatorStep ==
    (pc = "validator_node" /\ pc' /= pc) =>
        (pc' = "fallback_node" <=>
            final_confidence(state.labeler_output.confidence,
                             state.critic_review.confidence_score)
                < config.min_confidence_threshold)

C28_Config ==
    /\ state.max_retries = config.max_retries
    /\ write /= "none" => fallback_review_queue_dir = config.review_queue_dir

\* C28: a run applies the values of the config it is given: max_retries in
\* critic_node, min_confidence_threshold in validator_node and the review
\* queue directory in fallback_node all come from that config.
C28_OwnConfig ==
    /\ [](C28_Config)
    /\ [][C28_ValidatorStep]_vars

OtherThan(data_id, it) == it.data_id /= data_id

\* C29: after delete_review_item(d) the listing is exactly the previous
\* listing without the items whose data_id is d: the entries of every other
\* data_id are left untouched.
C29_DeleteKeepsOthers ==
    [][(op'.name = "delete" /\ (op' /= op \/ queue' /= queue)) =>
          load_review_queue(queue') =
              SelectSeq(load_review_queue(queue),
                        LAMBDA it : OtherThan(op'.data_id, it))]_vars

\* C30: a run whose critic yielded no review on either call (the default
\* accept with confidence 70 was taken) is escalated exactly when
\* floor((labeler_confidence + 70) / 2) < min_confidence_threshold, and then
\* with reason LOW_CONFIDENCE; with the threshold 85 it yields a
\* ValidatedLabel only when the labeler's confidence is at least 100.
C30_DefaultAcceptOutcome ==
    (pc = "returned" /\ Undecoded(gw, "critic")) =>
        /\ HumanReviewItemProduced <=>
              (state.labeler_output.confidence + 70) \div 2 < min_confidence_threshold
        /\ HumanReviewItemProduced => item.fallback_reason = "LOW_CONFIDENCE"
        /\ ValidatedLabelProduced => state.labeler_output.confidence >= 100

====
